---- MODULE Spec2Model ----
(***************************************************************************)
(* AgriFinConnect Rwanda: the loan-application workflow (submit, review,   *)
(* repayment schedule) and the password-reset tokens of backend/api.       *)
(*                                                                         *)
(* Every ORM call commits on its own (no transaction.atomic in the views), *)
(* so a request is a sequence of steps, one per database statement, and    *)
(* the steps of concurrent requests interleave.                            *)
(*                                                                         *)
(* Scales: money is in whole units and a monthly payment in hundredths of  *)
(* a unit (round(monthly, 2)); interest_rate is in hundredths (12 = 0.12); *)
(* a date is a day number; times of day are hours.                         *)
(***************************************************************************)
EXTENDS Integers, Sequences, FiniteSets, TLC

\* ----- bounds of the model -----
MaxApps == 2         \* LoanApplication rows ever stored
ConcApps == 1        \* LoanApplication rows ever stored where requests overlap
NumReviews == 2      \* mfi_review_application requests, each run once
MaxDay == 1          \* the requests of a run are served on one day of 0..MaxDay
DateMax == 70        \* the last day a date can hold (datetime.date.max, scaled)
NumForgots == 2      \* workers serving auth_forgot_password
NumResets == 2       \* workers serving auth_reset_password
MaxTokens == 2       \* PasswordResetToken rows ever created
MaxTime == 1         \* the last hour the clock reaches

\* ----- program constants -----
NULL == -1               \* None: a nullable column, or a key absent from the request body
DefaultRate == 12        \* data.get('interest_rate', 0.12)
StepDays == 30           \* timedelta(days=30)
ReasonMax == 2           \* [:500] on rejection_reason, scaled to 2 characters
TokenTTL == 1            \* timezone.timedelta(hours=1)
ApplicationsCap == 1     \* [:50] on a farmer's applications, scaled to 1 row
RepaymentsCap == 2       \* [:100] on a farmer's repayments, scaled to 2 rows
ReviewListCap == 1       \* [:100] on the applications listed for review, scaled to 1 row
LocationMax == 2         \* [:200] on location, scaled to 2 characters
LowBelow == 350          \* score < 35, in tenths
ModerateBelow == 550     \* score < 55, in tenths
MinPasswordLen == 8      \* len(new_password) < 8

Users == {"f1", "f2", "m1"}

\* UserProfile rows: f2 has no profile row and is not staff.
profile_role(u) == CASE u = "f1" -> "farmer" [] u = "m1" -> "microfinance" [] OTHER -> "none"
is_staff(u) == FALSE

user_role(u) == IF profile_role(u) # "none" THEN profile_role(u)
                ELSE IF is_staff(u) THEN "admin" ELSE "farmer"
is_farmer(u) == user_role(u) = "farmer"
is_anyone(u) == TRUE
is_microfinance(u) == user_role(u) = "microfinance"

\* ----- Python helpers -----
Truthy(v) == v # NULL /\ v # 0
\* a or b
PyOrNonNull(a, b) == IF a # NULL THEN a ELSE b
PyOr(a, b) == IF Truthy(a) THEN a ELSE b
\* s[:k] on a string of length n
TruncateNone(n, k) == n
Truncate(n, k) == IF n > k THEN k ELSE n

RECURSIVE Pow(_, _)
Pow(b, n) == IF n = 0 THEN 1 ELSE b * Pow(b, n - 1)

\* round(x, 2), in hundredths, of x = num/den hundredths (num >= 0, den > 0)
RoundHalfEven(num, den) ==
    LET q == num \div den
        r2 == 2 * (num % den)
    IN IF r2 < den THEN q
       ELSE IF r2 > den THEN q + 1
       ELSE IF q % 2 = 0 THEN q ELSE q + 1

\* (1 + interest_rate/12) ** duration - 1 = 0: the division by zero of line 605
MonthlyDivZero(rate, duration) == duration # 0 /\ rate = 0

\* amount * r * (1+r)**n / ((1+r)**n - 1) if duration else 0, r = rate/12 a whole
\* number m of percent (the rates used are multiples of 0.12), rounded to 2 places
Monthly(amount, rate, duration) ==
    IF duration = 0 THEN 0
    ELSE LET m == rate \div 12
             g == Pow(100 + m, duration)
         IN RoundHalfEven(amount * m * g, g - Pow(100, duration))

\* ----- state -----
VARIABLES
    apps,        \* api_loanapplication: row id -> row
    loans,       \* api_loan: row id -> row
    repayments,  \* api_repayment: the rows, each the n-th row written for its loan
    rv,          \* the workers serving mfi_review_application: position and locals
    resp,        \* the response the step just taken has sent, if it sent one
    reviews,     \* per application id, how many reviews of it were answered 200
    today,       \* timezone.now().date()
    profiles,    \* api_farmerprofile: per user NULL (no row) or the length of location
    tokens,      \* api_passwordresettoken: the rows
    issued,      \* how many token values secrets.token_urlsafe has drawn
    password,    \* per user, the password stored
    fg,          \* the workers serving auth_forgot_password
    rs,          \* the workers serving auth_reset_password
    now,         \* timezone.now(), in hours
    old,         \* the rows a user had when a create_for_user for that user began
    used,        \* the token values a get_valid_user call has returned a user for
    debug,       \* settings.DEBUG
    wins         \* per token value, how many reset requests with it were answered 200

loanVars == <<apps, loans, repayments, rv, reviews, today, profiles>>
authVars == <<tokens, issued, password, fg, rs, now, old, used, debug, wins>>
vars == <<apps, loans, repayments, rv, resp, reviews, today, profiles,
          tokens, issued, password, fg, rs, now, old, used, debug, wins>>

Reviews == 1..NumReviews

\* Request bodies of a review: the keys amount, interest_rate, duration_months
\* (NULL: absent) and the length of rejection_reason.
Body(amt, rate, dur, reason) ==
    [amount |-> amt, interest_rate |-> rate, duration_months |-> dur, rejection_reason |-> reason]
EmptyBody == Body(NULL, NULL, NULL, 0)
Bodies == {EmptyBody, Body(0, NULL, 0, 0), Body(15, 24, 1, 0),
           Body(NULL, NULL, 3, 0), Body(NULL, 0, NULL, 0), Body(NULL, NULL, NULL, 3)}

NoApp == [user |-> "none", dur |-> 0, req |-> 0, elig |-> NULL, rec |-> NULL,
          risk |-> NULL, status |-> "none", reviewed_by |-> "none",
          reviewed_at |-> NULL, rejection_reason |-> 0]

IdleReview == [pc |-> "idle", user |-> "none", pk |-> 0, action |-> "none",
               data |-> EmptyBody, app |-> NoApp, amount |-> 0, rate |-> 0, dur |-> 0, monthly |-> 0,
               loan |-> 0, i |-> 0, due |-> 0]

NoResp == [op |-> "none", pk |-> 0, action |-> "none", code |-> 0, fail |-> "none",
           tok |-> 0, reset_url |-> 0, user |-> "none", error |-> "none",
           rows |-> << >>, count |-> 0, input |-> << >>, ml |-> 0, text |-> "none"]

Forgots == 1..NumForgots
Resets == 1..NumResets
NoRow == [token |-> 0, user |-> "none", created_at |-> 0, expires_at |-> 0]
IdleForgot == [pc |-> "idle", user |-> "none"]
IdleReset == [pc |-> "idle", token |-> 0, prt |-> NoRow, new_password |-> "none"]

Init ==
    /\ apps = << >>
    /\ loans = << >>
    /\ repayments = {}
    /\ rv = [r \in Reviews |-> IdleReview]
    /\ resp = NoResp
    /\ reviews = [pk \in 1..MaxApps |-> 0]
    /\ today \in 0..MaxDay
    /\ profiles = [u \in Users |-> NULL]
    /\ tokens = {}
    /\ issued = 0
    /\ password = [u \in Users |-> "initial"]
    /\ fg = [f \in Forgots |-> IdleForgot]
    /\ rs = [q \in Resets |-> IdleReset]
    /\ now = 0
    /\ old = {}
    /\ used = {}
    /\ debug \in BOOLEAN
    /\ wins = [t \in 1..MaxTokens |-> 0]

\* ----- the ML collaborator (ml_service): what a call returns or raises -----
EligibilityOutcomes == {[st |-> "ok", val |-> 1], [st |-> "ok", val |-> 0],
                        [st |-> "unavailable", val |-> 0], [st |-> "error", val |-> 0]}
RiskOutcomes == {[st |-> "ok", val |-> 40],
                 [st |-> "unavailable", val |-> 0], [st |-> "error", val |-> 0]}
AmountOutcomes == {[st |-> "ok", val |-> 10], [st |-> "ok", val |-> 0],
                   [st |-> "unavailable", val |-> 0], [st |-> "error", val |-> 0]}

\* ----- request inputs -----
AppDurations == {0, 2}
AppRequested == {20}
Actions == {"approve", "reject", "other"}

\* ----- farmer_applications, POST -----
\* The exception the try block of lines 460-464 sees first, or "none".
ScoringFailure(eo, ro, ao) ==
    IF eo.st # "ok" THEN eo.st
    ELSE IF ro.st # "ok" THEN ro.st
    ELSE IF eo.val = 1 /\ ao.st # "ok" THEN ao.st
    ELSE "none"

\* app.recommended_amount = recommend_loan_amount(payload) if app.eligibility_approved else None
RecommendedAmountAlways(eo, ao) == ao.val
RecommendedAmount(eo, ao) == IF eo.val = 1 THEN ao.val ELSE NULL

\* The response status of a failed scoring.
ScoringErrorCode(fail) == IF fail = "unavailable" THEN 503 ELSE 400

\* Whether the row is written: only past the try block.
SubmitSavesAlways(fail) == TRUE
SubmitSaves(fail) == fail = "none"

NewApplication(u, dur, req, eo, ro, ao) ==
    [user |-> u, dur |-> dur, req |-> req, elig |-> eo.val,
     rec |-> RecommendedAmount(eo, ao), risk |-> ro.val,
     status |-> "pending", reviewed_by |-> "none", reviewed_at |-> NULL,
     rejection_reason |-> 0]

Submit(u, dur, req, eo, ro, ao) ==
    /\ Len(apps) < MaxApps
    /\ IF ~is_farmer(u)
       THEN /\ resp' = [NoResp EXCEPT !.op = "submit", !.code = 403, !.user = u,
                                       !.error = "Farmer access required"]
            /\ apps' = apps
       ELSE LET fail == ScoringFailure(eo, ro, ao)
            IN /\ apps' = IF SubmitSaves(fail)
                          THEN Append(apps, NewApplication(u, dur, req, eo, ro, ao))
                          ELSE apps
               /\ resp' = [NoResp EXCEPT !.op = "submit", !.fail = fail, !.user = u,
                              !.pk = IF SubmitSaves(fail) THEN Len(apps) + 1 ELSE 0,
                              !.code = IF fail = "none" THEN 201 ELSE ScoringErrorCode(fail)]
    /\ UNCHANGED <<loans, repayments, rv, reviews, today>>
    /\ UNCHANGED <<authVars, profiles>>

\* ----- mfi_review_application -----
ReviewResp(pk, act, code) ==
    [NoResp EXCEPT !.op = "review", !.pk = pk, !.action = act, !.code = code]

\* The worker's request has answered.
Answer(r, code) ==
    /\ rv' = [rv EXCEPT ![r] = IdleReview]
    /\ resp' = [ReviewResp(rv[r].pk, rv[r].action, code) EXCEPT !.user = rv[r].user]

\* LoanApplication.objects.get(pk=pk, status='pending') finds a row
FindsPending(pk) == pk \in DOMAIN apps /\ apps[pk].status = "pending"

\* float(data.get('amount') or app.recommended_amount or app.loan_amount_requested)
LoanAmount(amt, app) == PyOr(PyOr(amt, app.rec), app.req)
\* float(data.get('interest_rate', 0.12))
LoanRate(rate) == IF rate = NULL THEN DefaultRate ELSE rate
\* int(data.get('duration_months') or app.loan_duration_months)
LoanDuration(dur, app) == PyOr(dur, app.dur)

\* Lines 586-605: the role and action checks, the lookup, the stamping of the
\* instance in memory and the arithmetic of the approve branch.
ReviewBegin(r, u, pk, act, data) ==
    /\ rv[r].pc = "idle"
    /\ IF ~is_microfinance(u)
       THEN /\ resp' = [ReviewResp(0, "none", 403) EXCEPT !.user = u,
                                !.error = "Microfinance access required"]
            /\ rv' = rv
       ELSE IF act \notin {"approve", "reject"}
       THEN /\ resp' = [ReviewResp(0, act, 400) EXCEPT !.user = u]
            /\ rv' = rv
       ELSE IF ~FindsPending(pk)
       THEN /\ resp' = [ReviewResp(pk, act, 404) EXCEPT !.user = u]
            /\ rv' = rv
       ELSE LET me == [IdleReview EXCEPT !.user = u, !.pk = pk, !.action = act, !.data = data]
                stamped == [apps[pk] EXCEPT !.reviewed_by = u, !.reviewed_at = today]
            IN IF act = "approve"
               THEN LET amount == LoanAmount(data.amount, stamped)
                        irate == LoanRate(data.interest_rate)
                        duration == LoanDuration(data.duration_months, stamped)
                    IN IF MonthlyDivZero(irate, duration)
                       THEN /\ resp' = [ReviewResp(pk, act, 500) EXCEPT !.user = u]
                            /\ rv' = rv
                       ELSE /\ resp' = NoResp
                            /\ rv' = [rv EXCEPT ![r] =
                                     [me EXCEPT !.pc = "loan",
                                                !.app = [stamped EXCEPT !.status = "approved",
                                                                        !.rejection_reason = 0],
                                                !.amount = amount, !.rate = irate,
                                                !.dur = duration,
                                                !.monthly = Monthly(amount, irate, duration)]]
               ELSE /\ resp' = NoResp
                    /\ rv' = [rv EXCEPT ![r] =
                             [me EXCEPT !.pc = "save",
                                        !.app = [stamped EXCEPT !.status = "rejected",
                                                   !.rejection_reason =
                                                       Truncate(data.rejection_reason, ReasonMax)]]]
    /\ UNCHANGED <<apps, loans, repayments, reviews, today>>
    /\ UNCHANGED <<authVars, profiles>>

\* for i in range(duration): the loop body runs at count i
LoopRunsOffByOne(i, duration) == i <= duration
LoopRuns(i, duration) == i < duration

\* Loan.application is a OneToOneField: a second Loan of the application is refused.
LoanInsertRefused(pk) == \E l \in DOMAIN loans : loans[l].application = pk

\* Lines 606-616: Loan.objects.create, then due = timezone.now().date()
ReviewCreateLoan(r) ==
    /\ rv[r].pc = "loan"
    /\ IF LoanInsertRefused(rv[r].pk)
       THEN /\ Answer(r, 500)
            /\ loans' = loans
       ELSE /\ loans' = Append(loans, [application |-> rv[r].pk, amount |-> rv[r].amount,
                                       interest_rate |-> rv[r].rate,
                                       duration_months |-> rv[r].dur,
                                       monthly_payment |-> rv[r].monthly,
                                       created_at |-> today])
            /\ rv' = [rv EXCEPT ![r] = [rv[r] EXCEPT !.pc = IF LoopRuns(0, rv[r].dur)
                                                            THEN "repay" ELSE "save",
                                                     !.loan = Len(loans) + 1,
                                                     !.i = 0, !.due = today]]
            /\ resp' = NoResp
    /\ UNCHANGED <<apps, repayments, reviews, today>>
    /\ UNCHANGED <<authVars, profiles>>

\* due += timedelta(days=30) raises OverflowError past date.max
DateOverflows(due) == due + StepDays > DateMax
NextDue(due) == due + StepDays

\* Lines 617-619: one turn of the loop
ReviewCreateRepayment(r) ==
    /\ rv[r].pc = "repay"
    /\ IF DateOverflows(rv[r].due)
       THEN /\ Answer(r, 500)
            /\ repayments' = repayments
       ELSE /\ repayments' = repayments \cup {[loan |-> rv[r].loan, n |-> rv[r].i + 1,
                                               amount |-> rv[r].monthly,
                                               due_date |-> NextDue(rv[r].due)]}
            /\ rv' = [rv EXCEPT ![r] = [rv[r] EXCEPT !.i = rv[r].i + 1,
                                                     !.due = NextDue(rv[r].due),
                                                     !.pc = IF LoopRuns(rv[r].i + 1, rv[r].dur)
                                                            THEN "repay" ELSE "save"]]
            /\ resp' = NoResp
    /\ UNCHANGED <<apps, loans, reviews, today>>
    /\ UNCHANGED <<authVars, profiles>>

\* Line 623: app.save() writes every column of the instance in memory
SavedRow(r) == rv[r].app

ReviewSave(r) ==
    /\ rv[r].pc = "save"
    /\ apps' = [apps EXCEPT ![rv[r].pk] = SavedRow(r)]
    /\ reviews' = [reviews EXCEPT ![rv[r].pk] = @ + 1]
    /\ Answer(r, 200)
    /\ UNCHANGED <<loans, repayments, today>>
    /\ UNCHANGED <<authVars, profiles>>

\* ----- PasswordResetToken -----
\* cls.objects.filter(user=user): the rows create_for_user deletes
RowsDeletedNone(u) == {}
RowsDeletedExpired(u) == {t \in tokens : t.user = u /\ t.expires_at <= now}
RowsDeleted(u) == {t \in tokens : t.user = u}

\* prt.delete(): the rows it removes
RowsConsumedNone(prt) == {}
RowsConsumed(prt) == {prt}

\* cls.objects.create(user=user, token=token): the table with the new row
InsertedAlone(row) == (tokens \ RowsDeleted(row.user)) \cup {row}
Inserted(row) == tokens \cup {row}

\* cls.objects.get(token=token, expires_at__gt=now): the row, or NoRow
ValidAtInclusive(t, time) == t.expires_at >= time
ValidAt(t, time) == t.expires_at > time
Lookup(token) ==
    IF \E t \in tokens : t.token = token /\ ValidAt(t, now)
    THEN CHOOSE t \in tokens : t.token = token /\ ValidAt(t, now)
    ELSE NoRow

\* ----- auth_forgot_password -----
Emails == {"", "F1 ", "f1", "m1", "ghost"}
\* (payload.get('email') or '').strip().lower()
Normalize(e) == IF e = "F1 " THEN "f1" ELSE e
\* User.objects.get(username__iexact=email): the user, or "none"
UserByEmail(e) == IF e \in Users THEN e ELSE "none"

AuthResp(op, tok, code, fail) ==
    [NoResp EXCEPT !.op = op, !.tok = tok, !.code = code, !.fail = fail]

\* Lines 243-251 and models.py line 81: the checks, the user lookup and the
\* delete of the user's rows.
ForgotBegin(f, email) ==
    /\ fg[f].pc = "idle"
    /\ LET e == Normalize(email)
           u == UserByEmail(e)
       IN IF e = ""
          THEN /\ resp' = AuthResp("forgot", 0, 400, "noemail")
               /\ UNCHANGED <<tokens, fg, old>>
          ELSE IF u = "none"
          THEN /\ resp' = AuthResp("forgot", 0, 200, "none")
               /\ UNCHANGED <<tokens, fg, old>>
          ELSE /\ old' = old \cup {t \in tokens : t.user = u}
               /\ tokens' = tokens \ RowsDeleted(u)
               /\ fg' = [fg EXCEPT ![f] = [pc |-> "create", user |-> u]]
               /\ resp' = NoResp
    /\ UNCHANGED <<issued, password, rs, now>>
    /\ UNCHANGED <<used, debug, wins>>
    /\ UNCHANGED loanVars

\* models.py lines 82-83, then lines 252-268: the new row, the mail, the answer
ForgotCreate(f) ==
    /\ fg[f].pc = "create"
    /\ issued < MaxTokens
    /\ issued' = issued + 1
    /\ tokens' = Inserted([token |-> issued + 1, user |-> fg[f].user,
                            created_at |-> now, expires_at |-> now + TokenTTL])
    /\ fg' = [fg EXCEPT ![f] = IdleForgot]
    /\ resp' = [AuthResp("forgot", 0, 200, "none")
                   EXCEPT !.reset_url = IF debug THEN issued + 1 ELSE 0]
    /\ UNCHANGED <<password, rs, now, old>>
    /\ UNCHANGED <<used, debug, wins>>
    /\ UNCHANGED loanVars

\* ----- auth_reset_password -----
Passwords == {"short", "longenough"}
PasswordLenAny(p) == 10
PasswordLen(p) == IF p = "short" THEN 5 ELSE 10

\* Lines 276-285 and models.py lines 88-91: the checks and the lookup
ResetBegin(q, token, pw) ==
    /\ rs[q].pc = "idle"
    /\ IF token = 0
       THEN /\ resp' = AuthResp("reset", token, 400, "notoken")
            /\ rs' = rs
       ELSE IF PasswordLen(pw) < MinPasswordLen
       THEN /\ resp' = AuthResp("reset", token, 400, "short")
            /\ rs' = rs
       ELSE IF Lookup(token) = NoRow
       THEN /\ resp' = AuthResp("reset", token, 400, "invalid")
            /\ rs' = rs
       ELSE /\ resp' = NoResp
            /\ rs' = [rs EXCEPT ![q] = [pc |-> "delete", token |-> token,
                                        prt |-> Lookup(token), new_password |-> pw]]
    /\ UNCHANGED <<tokens, issued, password, fg, now, old>>
    /\ UNCHANGED <<used, debug, wins>>
    /\ UNCHANGED loanVars

\* models.py line 92: prt.delete(), then line 93 returns the user
ResetDelete(q) ==
    /\ rs[q].pc = "delete"
    /\ tokens' = tokens \ RowsConsumed(rs[q].prt)
    /\ used' = used \cup {rs[q].token}
    /\ rs' = [rs EXCEPT ![q] = [rs[q] EXCEPT !.pc = "setpw"]]
    /\ resp' = NoResp
    /\ UNCHANGED <<issued, password, fg, now, old, debug, wins>>
    /\ UNCHANGED loanVars

\* Lines 286-288: user.set_password(new_password); user.save()
ResetSetPassword(q) ==
    /\ rs[q].pc = "setpw"
    /\ password' = [password EXCEPT ![rs[q].prt.user] = rs[q].new_password]
    /\ rs' = [rs EXCEPT ![q] = IdleReset]
    /\ resp' = AuthResp("reset", rs[q].token, 200, "none")
    /\ UNCHANGED <<tokens, issued, fg, now, old>>
    /\ UNCHANGED <<used, debug>>
    /\ wins' = [wins EXCEPT ![rs[q].token] = @ + 1]
    /\ UNCHANGED loanVars

\* timezone.now() moves on
Tick ==
    /\ now < MaxTime
    /\ now' = now + 1
    /\ resp' = NoResp
    /\ UNCHANGED <<tokens, issued, password, fg, rs, old>>
    /\ UNCHANGED <<used, debug, wins>>
    /\ UNCHANGED loanVars

\* Every forgot-password and reset-password request, taken by the first free worker.
ForgotBeginAny(f) ==
    /\ \A g \in Forgots : g < f => fg[g].pc # "idle"
    /\ \E email \in Emails : ForgotBegin(f, email)

ResetBeginAny(q) ==
    /\ \A g \in Resets : g < q => rs[g].pc # "idle"
    /\ \E token \in 0..MaxTokens :
        \E pw \in IF token = 0 THEN {"longenough"} ELSE Passwords :
          ResetBegin(q, token, pw)

AuthNext ==
    \/ \E f \in Forgots : ForgotBeginAny(f)
    \/ \E f \in Forgots : ForgotCreate(f)
    \/ \E q \in Resets : ResetBeginAny(q)
    \/ \E q \in Resets : ResetDelete(q)
    \/ \E q \in Resets : ResetSetPassword(q)
    \/ Tick

\* The password-reset requests, overlapping freely.
AuthInit == Init /\ today = 0
AuthSpec == AuthInit /\ [][AuthNext]_vars

\* No password-reset request is between two of its steps.
AuthQuiet ==
    /\ \A f \in Forgots : fg[f].pc = "idle"
    /\ \A q \in Resets : rs[q].pc = "idle"

AuthSeqNext ==
    \/ \E f \in Forgots : AuthQuiet /\ ForgotBeginAny(f)
    \/ \E f \in Forgots : ForgotCreate(f)
    \/ \E q \in Resets : AuthQuiet /\ ResetBeginAny(q)
    \/ \E q \in Resets : ResetDelete(q)
    \/ \E q \in Resets : ResetSetPassword(q)
    \/ Tick

\* The password-reset requests, each run to completion before the next starts.
AuthSeqSpec == AuthInit /\ [][AuthSeqNext]_vars

\* No request is between two of its steps.
Quiet == \A r \in Reviews : rv[r].pc = "idle"

\* The outcome of a collaborator call that is not made.
NotCalled == [st |-> "ok", val |-> 0]

\* Every submission; a collaborator call the handler does not make has no outcome.
SubmitAny ==
    \E u \in Users, dur \in AppDurations, req \in AppRequested, eo \in EligibilityOutcomes :
      \E ro \in IF eo.st = "ok" THEN RiskOutcomes ELSE {NotCalled} :
        \E ao \in IF eo.st = "ok" /\ eo.val = 1 /\ ro.st = "ok"
                   THEN AmountOutcomes ELSE {NotCalled} :
          Submit(u, dur, req, eo, ro, ao)

\* Every review request, taken by the first free worker; an input the handler
\* does not read (it answers before) is not varied.
ReviewBeginAny(r) ==
    /\ \A q \in Reviews : q < r => rv[q].pc # "idle"
    /\ \E u \in Users :
        \E act \in IF is_microfinance(u) THEN Actions ELSE {"approve"} :
          \E pk \in IF act \in {"approve", "reject"} THEN 1..(MaxApps + 1) ELSE {1} :
            \E data \in IF FindsPending(pk) THEN Bodies ELSE {EmptyBody} :
              ReviewBegin(r, u, pk, act, data)

Next ==
    \/ Len(apps) < ConcApps /\ SubmitAny
    \/ \E r \in Reviews : ReviewBeginAny(r)
    \/ \E r \in Reviews : ReviewCreateLoan(r)
    \/ \E r \in Reviews : ReviewCreateRepayment(r)
    \/ \E r \in Reviews : ReviewSave(r)

\* Requests overlap freely: every interleaving of the steps of NumReviews reviews
\* and the submissions. The races are between reviews of one row.
LoanInit == Init /\ debug = FALSE
Spec == LoanInit /\ [][Next]_vars

\* Each request runs to completion before the next starts.
SeqNext ==
    \/ Quiet /\ SubmitAny
    \/ \E r \in Reviews : Quiet /\ ReviewBeginAny(r)
    \/ \E r \in Reviews : ReviewCreateLoan(r)
    \/ \E r \in Reviews : ReviewCreateRepayment(r)
    \/ \E r \in Reviews : ReviewSave(r)

SeqSpec == LoanInit /\ [][SeqNext]_vars

\* ----- the listings -----
DenyFarmer(op, u) ==
    [NoResp EXCEPT !.op = op, !.code = 403, !.user = u, !.error = "Farmer access required"]
DenyMicrofinance(op, u) ==
    [NoResp EXCEPT !.op = op, !.code = 403, !.user = u,
                   !.error = "Microfinance access required"]
Listing(op, u, rows) ==
    [NoResp EXCEPT !.op = op, !.code = 200, !.user = u, !.rows = rows, !.count = Len(rows)]

\* LoanApplication.objects.filter(user=request.user)
OwnAppsAll(u) == DOMAIN apps
OwnApps(u) == {pk \in DOMAIN apps : apps[pk].user = u}
\* LoanApplication.objects.filter(user=request.user, status='approved')
ApprovedApps(u) == {pk \in OwnApps(u) : apps[pk].status = "approved"}
\* Loan.objects.filter(application_id__in=loan_ids)
LoansIn(ids) == {l \in DOMAIN loans : loans[l].application \in ids}
\* Repayment.objects.filter(loan__in=loans)
RepaymentsIn(ls) == {p \in repayments : p.loan \in ls}

Max(S) == CHOOSE x \in S : \A y \in S : x >= y
\* order_by('-created_at'): ids are given in the order of creation
RECURSIVE NewestFirst(_)
NewestFirst(S) == IF S = {} THEN << >> ELSE <<Max(S)>> \o NewestFirst(S \ {Max(S)})
\* [:cap]
Page(q, cap) == SubSeq(q, 1, IF Len(q) < cap THEN Len(q) ELSE cap)

\* order_by('-due_date'): a before b
SoonestFirst(a, b) == a.due_date <= b.due_date
DueOrder(a, b) == a.due_date >= b.due_date
\* order_by('-due_date')[:cap]: the pages the database may return, rows of one
\* due date in any order
RepaymentPages(S, cap) ==
    LET k == IF Cardinality(S) < cap THEN Cardinality(S) ELSE cap
    IN {q \in [1..k -> S] :
          /\ \A i, j \in 1..k : i < j => q[i] # q[j] /\ DueOrder(q[i], q[j])
          /\ \A x \in S : (\A i \in 1..k : q[i] # x) => \A i \in 1..k : DueOrder(q[i], x)}

\* GET /api/farmer/applications/: lines 443-444 and 480-494
FarmerApplicationsList(u) ==
    /\ resp' = IF ~is_farmer(u) THEN DenyFarmer("farmer_applications", u)
               ELSE Listing("farmer_applications", u,
                            Page(NewestFirst(OwnApps(u)), ApplicationsCap))
    /\ UNCHANGED <<loanVars, authVars>>

\* GET /api/farmer/loans/
FarmerLoans(u) ==
    /\ resp' = IF ~is_farmer(u) THEN DenyFarmer("farmer_loans", u)
               ELSE Listing("farmer_loans", u, NewestFirst(LoansIn(ApprovedApps(u))))
    /\ UNCHANGED <<loanVars, authVars>>

\* GET /api/farmer/repayments/
FarmerRepayments(u) ==
    /\ IF ~is_farmer(u)
       THEN resp' = DenyFarmer("farmer_repayments", u)
       ELSE \E q \in RepaymentPages(RepaymentsIn(LoansIn(ApprovedApps(u))), RepaymentsCap) :
              resp' = Listing("farmer_repayments", u, q)
    /\ UNCHANGED <<loanVars, authVars>>

Statuses == {"pending", "approved", "rejected"}

\* GET /api/mfi/applications/?status=
MfiApplications(u, status_filter) ==
    /\ resp' = IF ~is_microfinance(u) THEN DenyMicrofinance("mfi_applications", u)
               ELSE Listing("mfi_applications", u,
                            Page(NewestFirst({pk \in DOMAIN apps : apps[pk].status = status_filter}),
                                 ReviewListCap))
    /\ UNCHANGED <<loanVars, authVars>>

\* GET /api/mfi/portfolio/
MfiPortfolio(u) ==
    /\ resp' = IF ~is_microfinance(u) THEN DenyMicrofinance("mfi_portfolio", u)
               ELSE [NoResp EXCEPT !.op = "mfi_portfolio", !.code = 200, !.user = u,
                                   !.count = Len(loans)]
    /\ UNCHANGED <<loanVars, authVars>>

\* GET or PATCH /api/farmer/profile/; location is NULL when the body has no such key
FarmerProfile(u, method, location) ==
    /\ IF ~is_farmer(u)
       THEN /\ resp' = DenyFarmer("farmer_profile", u)
            /\ profiles' = profiles
       ELSE LET got == IF profiles[u] = NULL THEN 0 ELSE profiles[u]
            IN /\ profiles' = [profiles EXCEPT ![u] =
                                 IF method = "PATCH" /\ location # NULL
                                 THEN Truncate(location, LocationMax) ELSE got]
               /\ resp' = [NoResp EXCEPT !.op = "farmer_profile", !.code = 200, !.user = u,
                                         !.count = profiles'[u]]
    /\ UNCHANGED <<apps, loans, repayments, rv, reviews, today>>
    /\ UNCHANGED authVars

\* The requests of the listings: submissions the scoring accepts or refuses
\* for ineligibility, reviews with no overrides.
ListSubmitAny ==
    \E u \in Users, dur \in AppDurations, req \in AppRequested :
      Submit(u, dur, req, [st |-> "ok", val |-> 1], [st |-> "ok", val |-> 40],
             [st |-> "ok", val |-> 10])

ListReviewBeginAny(r) ==
    /\ r = 1
    /\ \E u \in Users :
        \E act \in IF is_microfinance(u) THEN {"approve", "reject"} ELSE {"approve"} :
          \E pk \in IF is_microfinance(u) THEN 1..MaxApps ELSE {1} :
            ReviewBegin(r, u, pk, act, EmptyBody)

ListNext ==
    \/ Quiet /\ ListSubmitAny
    \/ \E r \in Reviews : Quiet /\ ListReviewBeginAny(r)
    \/ \E r \in Reviews : ReviewCreateLoan(r)
    \/ \E r \in Reviews : ReviewCreateRepayment(r)
    \/ \E r \in Reviews : ReviewSave(r)
    \/ \E u \in Users : Quiet /\ FarmerApplicationsList(u)
    \/ \E u \in Users : Quiet /\ FarmerLoans(u)
    \/ \E u \in Users : Quiet /\ FarmerRepayments(u)
    \/ \E u \in Users, f \in Statuses : Quiet /\ MfiApplications(u, f)
    \/ \E u \in Users : Quiet /\ MfiPortfolio(u)
    \/ \E u \in Users, method \in {"GET", "PATCH"}, location \in {NULL, 3} :
          Quiet /\ FarmerProfile(u, method, location)

\* Submissions, reviews and listings, each request run to completion before the
\* next starts.
ListInit == LoanInit /\ today = 0
ListSpec == ListInit /\ [][ListNext]_vars

\* ----- explanations.py -----
\* risk_score_description(risk_score)["interpretation"], the score in tenths
RiskBandInclusive(score) ==
    IF score <= LowBelow THEN "Low risk"
    ELSE IF score <= ModerateBelow THEN "Moderate risk" ELSE "Higher risk"
RiskBand(score) ==
    IF score < LowBelow THEN "Low risk"
    ELSE IF score < ModerateBelow THEN "Moderate risk" ELSE "Higher risk"

\* _num(payload, key, default): an absent key gives the default
Num(v, default) == IF v = NULL THEN default ELSE v
\* _str(payload, key, default): str(v).strip()
Str(v, default) == IF v = "absent" THEN default ELSE IF v = "Employed " THEN "Employed" ELSE v
\* int(credit), the credit score in tenths
IntOf(credit) == credit \div 10

Reason(kind, arg) == [kind |-> kind, arg |-> arg]
When(c, r) == IF c THEN <<r>> ELSE << >>
OrFallback(reasons, r) == IF reasons = << >> THEN <<r>> ELSE reasons

StrongCreditAlways(credit) == TRUE
StrongCredit(credit) == credit >= 6500

\* eligibility_reason(payload, approved): the prefix and the reasons in order
EligibilityReason(p, approved) ==
    LET income == Num(p.AnnualIncome, 60000)
        credit == Num(p.CreditScore, 6200)
        loan_amt == Num(p.LoanAmount, 20000)
        dti == Num(p.DebtToIncomeRatio, 35)
        employment == Str(p.EmploymentStatus, "Employed")
        prev_defaults == Num(p.PreviousLoanDefaults, 0)
        bankruptcy == Num(p.BankruptcyHistory, 0)
        payment_hist == Num(p.PaymentHistory, 25)
    IN IF approved
       THEN [prefix |-> "Approved:",
             reasons |-> OrFallback(
                 When(StrongCredit(credit), Reason("strong credit score", IntOf(credit)))
                 \o When(~StrongCredit(credit) /\ credit >= 6000,
                         Reason("acceptable credit score", IntOf(credit)))
                 \o When(income >= 50000 /\ loan_amt > 0 /\ income * 4 > loan_amt,
                         Reason("income supports the requested loan amount", 0))
                 \o When(dti <= 40, Reason("manageable debt-to-income ratio", 0))
                 \o When(employment = "Employed", Reason("stable employment status", 0))
                 \o When(prev_defaults = 0, Reason("no previous loan defaults", 0))
                 \o When(bankruptcy = 0, Reason("no bankruptcy history", 0))
                 \o When(payment_hist >= 20, Reason("good payment history", 0)),
                 Reason("overall profile meets the eligibility criteria", 0))]
       ELSE [prefix |-> "Denied:",
             reasons |-> OrFallback(
                 When(credit < 6000, Reason("credit score", IntOf(credit)))
                 \o When(dti > 45, Reason("high debt-to-income ratio", 0))
                 \o When(prev_defaults > 0, Reason("previous loan default(s)", 0))
                 \o When(bankruptcy > 0, Reason("bankruptcy history", 0))
                 \o When(employment = "Unemployed", Reason("employment status", 0))
                 \o When(income < 30000 /\ loan_amt > 10000,
                         Reason("income may be insufficient", 0))
                 \o When(payment_hist < 15, Reason("limited or weak payment history", 0)),
                 Reason("the combined risk factors in your profile", 0))]

\* The feature payloads of a request: credit scores in tenths, ratios in percent
Profiles ==
    {[AnnualIncome |-> 60000, LoanAmount |-> 20000, EmploymentStatus |-> "Employed ",
      PreviousLoanDefaults |-> 0, BankruptcyHistory |-> 0, PaymentHistory |-> 30],
     [AnnualIncome |-> 20000, LoanAmount |-> 20000, EmploymentStatus |-> "Unemployed",
      PreviousLoanDefaults |-> 1, BankruptcyHistory |-> 1, PaymentHistory |-> 10],
     [AnnualIncome |-> 60000, LoanAmount |-> 0, EmploymentStatus |-> "Self-Employed",
      PreviousLoanDefaults |-> 0, BankruptcyHistory |-> 1, PaymentHistory |-> 15],
     [AnnualIncome |-> NULL, LoanAmount |-> NULL, EmploymentStatus |-> "absent",
      PreviousLoanDefaults |-> NULL, BankruptcyHistory |-> NULL, PaymentHistory |-> NULL]}
Payloads ==
    {[AnnualIncome |-> o.AnnualIncome, CreditScore |-> c, LoanAmount |-> o.LoanAmount,
      DebtToIncomeRatio |-> d, EmploymentStatus |-> o.EmploymentStatus,
      PreviousLoanDefaults |-> o.PreviousLoanDefaults,
      BankruptcyHistory |-> o.BankruptcyHistory, PaymentHistory |-> o.PaymentHistory] :
        c \in {NULL, 5500, 5999, 6000, 6495, 6500, 7000},
        d \in {NULL, 20, 40, 45, 46, 50},
        o \in Profiles}
\* What predict_eligibility and predict_risk do: a value, or an exception
PredictOutcomes == {[st |-> "ok", val |-> 1], [st |-> "ok", val |-> 0],
                    [st |-> "unavailable", val |-> 0], [st |-> "error", val |-> 0]}
RiskScores == 300..700

MlErrorCode(st) == IF st = "unavailable" THEN 503 ELSE 400

\* POST /api/eligibility/
Eligibility(payload, eo) ==
    /\ resp' = IF eo.st # "ok"
               THEN [NoResp EXCEPT !.op = "eligibility", !.code = MlErrorCode(eo.st)]
               ELSE LET reason == EligibilityReason(payload, eo.val = 1)
                    IN [NoResp EXCEPT !.op = "eligibility", !.code = 200, !.input = payload,
                                      !.ml = eo.val, !.text = reason.prefix,
                                      !.rows = reason.reasons]
    /\ UNCHANGED <<loanVars, authVars>>

\* POST /api/risk/
Risk(ro) ==
    /\ resp' = IF ro.st # "ok"
               THEN [NoResp EXCEPT !.op = "risk", !.code = MlErrorCode(ro.st)]
               ELSE [NoResp EXCEPT !.op = "risk", !.code = 200, !.ml = ro.val,
                                   !.text = RiskBand(ro.val)]
    /\ UNCHANGED <<loanVars, authVars>>

ExplNext ==
    \/ \E eo \in PredictOutcomes :
         \E payload \in IF eo.st = "ok" THEN Payloads ELSE {CHOOSE p \in Payloads : TRUE} :
           Eligibility(payload, eo)
    \/ \E ro \in [st : {"ok"}, val : RiskScores]
                  \cup {[st |-> "unavailable", val |-> 0], [st |-> "error", val |-> 0]} :
         Risk(ro)

\* The two scoring endpoints that explain their result
ExplSpec == ListInit /\ [][ExplNext]_vars

\* ----- what the claims speak of -----
Terminal(pk) == apps[pk].status \in {"approved", "rejected"}
LoansOf(pk) == {l \in DOMAIN loans : loans[l].application = pk}
RowsOf(l) == {p \in repayments : p.loan = l}
\* The worker's request has created its Loan.
HasLoan(r) == rv[r].pc \in {"repay", "save"} /\ rv[r].action = "approve"
\* The request that created Loan l has answered.
Answered(l) == \A r \in Reviews : rv[r].loan # l
Schedule(l) == {[loan |-> l, n |-> i, amount |-> loans[l].monthly_payment,
                 due_date |-> loans[l].created_at + 30 * i] :
                i \in 1..loans[l].duration_months}
FirstNonNull(a, b, c) == IF a # NULL THEN a ELSE IF b # NULL THEN b ELSE c
FirstNonZero(a, b, c) == IF a \notin {NULL, 0} THEN a ELSE IF b \notin {NULL, 0} THEN b ELSE c

\* C1: of the overlapping reviews of one pending application exactly one is
\* answered 200 and changes the row; any other is answered 404.
C1_ExactlyOneReviewSucceeds ==
    \A pk \in DOMAIN apps :
        /\ reviews[pk] <= 1
        /\ (resp.op = "review" /\ resp.pk = pk /\ reviews[pk] >= 1) => resp.code \in {200, 404}

\* C2: approved and rejected are terminal: the stored status of a reviewed
\* application never changes again, and a review answered while it is terminal
\* is answered 404 and changes no application, Loan or Repayment row.
C2_TerminalStatus ==
    [][\A pk \in DOMAIN apps : Terminal(pk) =>
          /\ apps'[pk].status = apps[pk].status
          /\ (resp'.op = "review" /\ resp'.pk = pk /\ resp' # resp) =>
                 /\ resp'.code = 404
                 /\ UNCHANGED <<apps, loans, repayments>>]_vars


\* C3: between requests, an application has exactly one Loan if it is approved
\* and none if it is pending or rejected.
C3_LoanIffApproved ==
    Quiet => \A pk \in DOMAIN apps :
                Cardinality(LoansOf(pk)) = IF apps[pk].status = "approved" THEN 1 ELSE 0

\* C4: an approve review that created a Loan of n > 0 months has created exactly
\* n Repayment rows, the i-th due 30*i days after the approval date.
C4_ScheduleComplete ==
    \A l \in DOMAIN loans :
        (Answered(l) /\ loans[l].duration_months > 0) => RowsOf(l) = Schedule(l)

C6_FirstNonNullAmount ==
    \A r \in Reviews :
        HasLoan(r) => loans[rv[r].loan].amount =
                          FirstNonNull(rv[r].data.amount, rv[r].app.rec, rv[r].app.req)

\* C6 as amended: the Loan's amount is the first of the request's amount and the
\* application's recommended_amount that is neither null nor 0, and otherwise
\* the application's loan_amount_requested.
C6_FirstTruthyAmount ==
    \A r \in Reviews :
        HasLoan(r) => loans[rv[r].loan].amount =
                          FirstNonZero(rv[r].data.amount, rv[r].app.rec, rv[r].app.req)

C6_Witness ==
    \E r \in Reviews :
        /\ HasLoan(r) /\ rv[r].data.amount = 0 /\ rv[r].app.rec = 0
        /\ loans[rv[r].loan].amount = rv[r].app.req

\* C7: every approve review of a pending application completes (it is answered
\* 200, never 500) and its Loan has the request's interest_rate when one is
\* supplied, 0 included, else 0.12, and the request's duration_months when one
\* is supplied, 0 included, else the application's loan_duration_months.
C7_RateAndDuration ==
    /\ (resp.op = "review" /\ resp.action = "approve") => resp.code # 500
    /\ \A r \in Reviews :
          HasLoan(r) =>
              /\ loans[rv[r].loan].interest_rate =
                     IF rv[r].data.interest_rate # NULL THEN rv[r].data.interest_rate
                     ELSE DefaultRate
              /\ loans[rv[r].loan].duration_months =
                     IF rv[r].data.duration_months # NULL THEN rv[r].data.duration_months
                     ELSE rv[r].app.dur

\* C8: a submission whose scoring fails stores no LoanApplication row and is
\* answered 503 when the failure is "model unavailable" and 400 otherwise.
C8_ScoringAllOrNothing ==
    [][(resp'.op = "submit" /\ resp'.fail # "none") =>
          /\ apps' = apps
          /\ resp'.code = IF resp'.fail = "unavailable" THEN 503 ELSE 400]_vars

C8_Witness ==
    /\ Len(apps) = 1
    /\ resp.op = "submit" /\ resp.fail = "unavailable" /\ resp.code = 503

\* C9: every stored application has eligibility_approved and risk_score set, and
\* a recommended_amount only if eligibility_approved is true; the row a
\* submission has just stored is pending and has no reviewer.
C9_ScoredBeforeStored ==
    /\ \A pk \in DOMAIN apps :
          /\ apps[pk].elig # NULL
          /\ apps[pk].risk # NULL
          /\ apps[pk].rec # NULL => apps[pk].elig = 1
    /\ (resp.op = "submit" /\ resp.code = 201) =>
          /\ resp.pk = Len(apps)
          /\ apps[resp.pk].status = "pending"
          /\ apps[resp.pk].reviewed_by = "none"
          /\ apps[resp.pk].reviewed_at = NULL

C9_Witness ==
    /\ resp.op = "submit" /\ resp.code = 201
    /\ apps[resp.pk].elig = 0 /\ apps[resp.pk].rec = NULL
    /\ \E pk \in DOMAIN apps : apps[pk].status = "approved" /\ apps[pk].rec # NULL


OldTokens == {t.token : t \in old}

\* C10: a token the user held when create_for_user began no longer
\* validates: no row carries it, no later lookup finds it, and a reset request
\* made with it is answered "Invalid or expired" and leaves the password alone.
C10_OlderTokenInvalidated ==
    [][ /\ \A t \in old' : \A x \in tokens' : x.token # t.token
        /\ \A q \in Resets :
              (rs[q].pc = "idle" /\ rs'[q].pc = "delete") => rs'[q].token \notin OldTokens
        /\ (rs' = rs /\ resp'.op = "reset" /\ resp'.tok \in OldTokens
                /\ resp'.fail # "short")
              => (resp'.fail = "invalid" /\ resp'.code = 400 /\ password' = password)
      ]_vars

\* a reset request with a superseded, still unexpired token has been refused
\* while the newer token of the same user is stored
C10_Witness ==
    /\ resp.op = "reset"
    /\ resp.fail = "invalid"
    /\ \E t \in old :
        /\ t.token = resp.tok
        /\ ValidAt(t, now)
        /\ \E x \in tokens : x.user = t.user /\ x.token > t.token


TokensOf(u) == {t \in tokens : t.user = u}

\* C11: a token a get_valid_user call has returned a user for is single-use:
\* no row carries it any more, no later lookup finds it, and a reset request
\* made with it is answered "Invalid or expired" and changes no password.
C11_SingleUse ==
    [][ /\ \A t \in used' : \A x \in tokens' : x.token # t
        /\ \A q \in Resets :
              (rs[q].pc = "idle" /\ rs'[q].pc = "delete") => rs'[q].token \notin used
        /\ (rs' = rs /\ resp'.op = "reset" /\ resp'.tok \in used
                /\ resp'.fail # "short")
              => (resp'.fail = "invalid" /\ resp'.code = 400 /\ password' = password)
      ]_vars

\* a reset request repeats, before any token can have expired, a token that
\* has already reset a password, and is refused
C11_Witness ==
    /\ resp.op = "reset"
    /\ resp.fail = "invalid"
    /\ resp.tok \in used
    /\ now < TokenTTL
    /\ \E u \in Users : password[u] = "longenough"

\* C12: a row expires one hour after its creation; a lookup succeeds only
\* while now < expires_at, and a reset request made at or after the expiry of
\* its token is refused and leaves the passwords unchanged.
C12_ExpiredTokenRejected ==
    [][ /\ \A t \in tokens' : t.expires_at = t.created_at + 1
        /\ \A q \in Resets :
              (rs[q].pc = "idle" /\ rs'[q].pc = "delete") => now < rs'[q].prt.expires_at
        /\ (rs' = rs /\ resp'.op = "reset"
                /\ \E t \in tokens : t.token = resp'.tok /\ now >= t.expires_at)
              => (resp'.code = 400 /\ password' = password /\ tokens' = tokens)
      ]_vars

\* a reset request with a stored token, made at the hour the token expires,
\* has been refused
C12_Witness ==
    /\ resp.op = "reset"
    /\ resp.fail = "invalid"
    /\ \E t \in tokens : t.token = resp.tok /\ now = t.expires_at

\* C13: where each request runs to completion before the next starts, a user
\* has at most one PasswordResetToken row.
C13_AtMostOneToken == \A u \in Users : Cardinality(TokensOf(u)) <= 1

\* a second forgot-password request of a user has completed while the row of
\* the first was still stored
C13_Witness ==
    /\ AuthQuiet
    /\ \E u \in Users : Cardinality(TokensOf(u)) = 1 /\ \E t \in old : t.user = u

\* C14: the insert of create_for_user removes nothing: a row that a racing
\* create_for_user of the same user inserted after the delete stays, so the
\* user ends with more than one stored row.
C14_CreateKeepsRacingRow ==
    [][ \A f \in Forgots :
          (fg[f].pc = "create" /\ fg'[f].pc = "idle")
            => /\ TokensOf(fg[f].user) \subseteq tokens'
               /\ Cardinality(tokens') = Cardinality(tokens) + 1
      ]_vars

\* two overlapping forgot-password requests of one user have both completed
\* and left two stored, unexpired tokens of that user
C14_Witness ==
    /\ \A f \in Forgots : fg[f].pc = "idle"
    /\ \E u \in Users : Cardinality({t \in TokensOf(u) : ValidAt(t, now)}) > 1

\* The answer to a forgot-password request for an email no account has
GenericForgotResp == AuthResp("forgot", 0, 200, "none")

\* C15: with a non-empty email, the answer to a forgot-password request is
\* the same whether or not an account has the email.
C15_SameForgotResponse ==
    (resp.op = "forgot" /\ resp.code = 200) => resp = GenericForgotResp


MfiOps == {"mfi_applications", "review", "mfi_portfolio"}
FarmerOps == {"farmer_profile", "submit", "farmer_applications", "farmer_loans",
              "farmer_repayments"}
Data == <<apps, loans, repayments, profiles>>

\* C16: a request of a user whose role resolves to farmer to an MFI endpoint is
\* answered 403 "Microfinance access required" and no review of such a user
\* gets past the gate; a request of a microfinance user to a farmer endpoint is
\* answered 403 "Farmer access required"; neither changes an application,
\* loan, repayment or profile row.
C16_RoleGates ==
    [][ /\ (resp'.op \in MfiOps /\ user_role(resp'.user) = "farmer")
              => /\ resp'.code = 403
                 /\ resp'.error = "Microfinance access required"
                 /\ Data' = Data
        /\ (resp'.op \in FarmerOps /\ user_role(resp'.user) = "microfinance")
              => /\ resp'.code = 403
                 /\ resp'.error = "Farmer access required"
                 /\ Data' = Data
        /\ \A r \in Reviews : rv'[r].pc # "idle" => user_role(rv'[r].user) # "farmer"
      ]_vars

\* a farmer has asked to review an application that is pending, and was refused
C16_Witness ==
    /\ resp.op = "review"
    /\ resp.code = 403
    /\ user_role(resp.user) = "farmer"
    /\ \E pk \in DOMAIN apps : apps[pk].status = "pending"

OwnerOfLoan(l) == apps[loans[l].application].user
\* every row of a farmer's listing belongs to the farmer
OwnRows ==
    /\ (resp.op = "farmer_applications" /\ resp.code = 200)
          => \A i \in 1..Len(resp.rows) : apps[resp.rows[i]].user = resp.user
    /\ (resp.op = "farmer_loans" /\ resp.code = 200)
          => \A i \in 1..Len(resp.rows) : OwnerOfLoan(resp.rows[i]) = resp.user
    /\ (resp.op = "farmer_repayments" /\ resp.code = 200)
          => \A i \in 1..Len(resp.rows) : OwnerOfLoan(resp.rows[i].loan) = resp.user
\* what the three listings would answer the farmer
ListingsOf(f) ==
    <<Page(NewestFirst(OwnApps(f)), ApplicationsCap),
      NewestFirst(LoansIn(ApprovedApps(f))),
      RepaymentPages(RepaymentsIn(LoansIn(ApprovedApps(f))), RepaymentsCap)>>
\* the step is a submission of a user other than f, or a step of a review of an
\* application of a user other than f
StepOfAnother(f) ==
    \/ resp'.op = "submit" /\ resp'.user # f
    \/ \E r \in Reviews :
          /\ rv'[r] # rv[r]
          /\ LET pk == IF rv[r].pc = "idle" THEN rv'[r].pk ELSE rv[r].pk
             IN apps[pk].user # f

\* C17: every row that farmer_applications (GET), farmer_loans and
\* farmer_repayments return belongs to the farmer who asks, and a submission
\* or a review of another farmer's application leaves the farmer's listings
\* as they were.
C17_OwnListings ==
    [][ /\ OwnRows'
        /\ \A f \in Users : StepOfAnother(f) => ListingsOf(f)' = ListingsOf(f)
      ]_vars

\* a farmer with repayments lists them while another farmer has repayments too
C17_Witness ==
    /\ resp.op = "farmer_repayments"
    /\ resp.code = 200
    /\ Len(resp.rows) > 0
    /\ \E g \in Users : g # resp.user /\ RepaymentsIn(LoansIn(ApprovedApps(g))) # {}

\* C18: farmer_repayments returns the farmer's repayments soonest due first,
\* at most RepaymentsCap of them, those with the earliest due dates.
C18_SoonestDueFirst ==
    (resp.op = "farmer_repayments" /\ resp.code = 200)
      => LET S == RepaymentsIn(LoansIn(ApprovedApps(resp.user)))
             q == resp.rows
         IN /\ Len(q) = (IF Cardinality(S) < RepaymentsCap THEN Cardinality(S)
                          ELSE RepaymentsCap)
            /\ \A i, j \in 1..Len(q) : i < j => SoonestFirst(q[i], q[j])
            /\ \A x \in S : (\A i \in 1..Len(q) : q[i] # x)
                  => \A i \in 1..Len(q) : SoonestFirst(q[i], x)


\* C19: every score falls in exactly one band: "Low risk" below 35,
\* "Moderate risk" from 35 and below 55, "Higher risk" from 55.
C19_RiskBands ==
    (resp.op = "risk" /\ resp.code = 200)
      => /\ resp.text \in {"Low risk", "Moderate risk", "Higher risk"}
         /\ resp.text = "Low risk" <=> resp.ml < 350
         /\ resp.text = "Moderate risk" <=> (350 <= resp.ml /\ resp.ml < 550)
         /\ resp.text = "Higher risk" <=> resp.ml >= 550

\* the score 35.0 has been described, as moderate
C19_Witness == resp.op = "risk" /\ resp.ml = 350 /\ resp.text = "Moderate risk"

Kinds(q) == {q[i].kind : i \in 1..Len(q)}
Has(q, kind, arg) == \E i \in 1..Len(q) : q[i] = [kind |-> kind, arg |-> arg]
Fallbacks == {"overall profile meets the eligibility criteria",
              "the combined risk factors in your profile"}
\* the order in which eligibility_reason checks
CheckOrder ==
    <<"strong credit score", "acceptable credit score",
      "income supports the requested loan amount", "manageable debt-to-income ratio",
      "stable employment status", "no previous loan defaults", "no bankruptcy history",
      "good payment history", "overall profile meets the eligibility criteria",
      "credit score", "high debt-to-income ratio", "previous loan default(s)",
      "bankruptcy history", "employment status", "income may be insufficient",
      "limited or weak payment history", "the combined risk factors in your profile">>
Rank(kind) == CHOOSE i \in 1..Len(CheckOrder) : CheckOrder[i] = kind

\* C20: the reason starts with "Approved:" exactly when approved is true and
\* with "Denied:" otherwise; an approval names the strong credit score from
\* 650, the acceptable one from 600; a denial names the credit score below 600
\* and the high debt-to-income ratio above 0.45; the reasons come in the order
\* of the checks, and the fallback sentence stands exactly when none matched.
C20_EligibilityReason ==
    (resp.op = "eligibility" /\ resp.code = 200)
      => LET q == resp.rows
             approved == resp.ml = 1
             c == IF resp.input.CreditScore = NULL THEN 6200 ELSE resp.input.CreditScore
             d == IF resp.input.DebtToIncomeRatio = NULL THEN 35
                  ELSE resp.input.DebtToIncomeRatio
         IN /\ resp.text = (IF approved THEN "Approved:" ELSE "Denied:")
            /\ Len(q) >= 1
            /\ \A i, j \in 1..Len(q) : i < j => Rank(q[i].kind) < Rank(q[j].kind)
            /\ (Kinds(q) \cap Fallbacks # {}) <=> (Len(q) = 1 /\ q[1].kind \in Fallbacks)
            /\ approved
                  => /\ Has(q, "strong credit score", c \div 10) <=> c >= 6500
                     /\ Has(q, "acceptable credit score", c \div 10) <=> (6000 <= c /\ c < 6500)
                     /\ Kinds(q) \cap {"credit score", "high debt-to-income ratio"} = {}
            /\ ~approved
                  => /\ Has(q, "credit score", c \div 10) <=> c < 6000
                     /\ "high debt-to-income ratio" \in Kinds(q) <=> d > 45
                     /\ Kinds(q) \cap {"strong credit score", "acceptable credit score"} = {}

\* an approval with credit score 700 and a denial with credit score 550 and
\* ratio 0.5 are the examples; the state is the denial
C20_Witness ==
    /\ resp.op = "eligibility"
    /\ resp.code = 200
    /\ resp.text = "Denied:"
    /\ resp.input.CreditScore = 5500
    /\ resp.input.DebtToIncomeRatio = 50
    /\ Has(resp.rows, "credit score", 550)
    /\ "high debt-to-income ratio" \in Kinds(resp.rows)


\* C21: a reject review of a pending application stores status rejected, the
\* supplied reason cut to ReasonMax characters, the reviewer and the time of
\* the review; no step of it writes a Loan or a Repayment; every other
\* application stays as it was.
C21_RejectFrame ==
    [][ \A r \in Reviews :
          /\ (rv'[r] # rv[r] /\ (rv[r].action = "reject" \/ rv'[r].action = "reject"))
                => (loans' = loans /\ repayments' = repayments)
          /\ (rv[r].action = "reject" /\ rv[r].pc = "save" /\ rv'[r].pc = "idle")
                => LET pk == rv[r].pk
                       given == rv[r].data.rejection_reason
                   IN /\ resp'.code = 200
                      /\ apps[pk].status = "pending"
                      /\ apps'[pk].status = "rejected"
                      /\ apps'[pk].rejection_reason = (IF given > 2 THEN 2 ELSE given)
                      /\ apps'[pk].reviewed_by = rv[r].user
                      /\ apps'[pk].reviewed_at = today
                      /\ DOMAIN apps' = DOMAIN apps
                      /\ \A o \in DOMAIN apps : o # pk => apps'[o] = apps[o]
      ]_vars

\* a reject with a reason longer than the limit has been stored while another
\* application exists
C21_Witness ==
    /\ resp.op = "review"
    /\ resp.action = "reject"
    /\ resp.code = 200
    /\ Len(apps) = 2
    /\ apps[resp.pk].status = "rejected"
    /\ apps[resp.pk].rejection_reason = ReasonMax

InReview(pk) == \E r \in Reviews : rv[r].pc # "idle" /\ rv[r].pk = pk

\* C22: an application whose stored status is rejected, or is pending with
\* no review of it running, has no Loan with Repayment rows.
C22_NoLoanUnlessApproved ==
    \A pk \in DOMAIN apps :
      (apps[pk].status = "rejected" \/ (apps[pk].status = "pending" /\ ~InReview(pk)))
        => ~\E l \in LoansOf(pk) : RowsOf(l) # {}

\* C23: of the reset requests that carry one token at most one is answered 200.
C23_AtMostOneResetWins == \A t \in DOMAIN wins : wins[t] <= 1

\* C24: a reset request refused for an empty token or a short password leaves
\* the token table and the passwords as they were, no request with a short
\* password gets past the validation, and a stored unexpired token is still
\* found by the request that follows with a valid password.
C24_ValidationKeepsToken ==
    [][ /\ (rs' = rs /\ resp'.op = "reset" /\ resp'.fail \in {"notoken", "short"})
              => (tokens' = tokens /\ password' = password /\ resp'.code = 400)
        /\ \A q \in Resets : rs'[q].pc # "idle" => rs'[q].new_password # "short"
        /\ (resp.op = "reset" /\ resp.fail = "short" /\ resp'.op = "reset"
                /\ resp'.tok = resp.tok /\ resp'.fail = "invalid")
              => ~\E t \in tokens : t.token = resp.tok /\ t.expires_at > now
      ]_vars

\* a reset request with a stored unexpired token and a short password has
\* been refused
C24_Witness ==
    /\ resp.op = "reset"
    /\ resp.fail = "short"
    /\ \E t \in tokens : t.token = resp.tok /\ t.expires_at > now

\* C25: after a review was answered with an error, an application that is
\* pending has no reviewer, no Loan and no Repayment row.
C25_ErrorLeavesNoTrace ==
    (resp.op = "review" /\ resp.code \in {403, 400, 404, 500})
      => \A pk \in DOMAIN apps :
           apps[pk].status = "pending"
             => /\ apps[pk].reviewed_by = "none"
                /\ LoansOf(pk) = {}

====
